---- MODULE Spec2Model ----
(***************************************************************************)
(* Rust-ac: the interval scheduler (src/src/mouse_controller.rs).          *)
(*                                                                         *)
(* MouseController owns an atomic running flag, an atomic click counter,   *)
(* the join handles of its worker threads and the start instant.  The      *)
(* caller (the UI thread, holding &mut self) calls start_clicking and      *)
(* stop_clicking; each worker thread runs the closure of lines 66-103.     *)
(* Time is the monotonic clock Instant::now(), in whole milliseconds.      *)
(*                                                                         *)
(* Rust-ac: the hotkey detector (src/src/hotkey_manager.rs) and the two    *)
(* places of src/src/app.rs that reconfigure it.  HotkeyManager owns the   *)
(* registration handle, the receiving end of the notification channel and  *)
(* the edge flag; the UI thread alone calls update_hotkeys and             *)
(* check_events.  The keyboard, the operating system's hotkey table and    *)
(* the notification handler are the environment.                           *)
(***************************************************************************)
EXTENDS Integers, Sequences, FiniteSets, TLC

\* ------------------------------------------------------------------ bounds
\* The clock stops advancing at MaxTime (ms).
MaxTime == 5
\* The clock bound of SpecFair (ms).
MaxFairTime == 3
\* The clock bound of SpecIdeal (ms).
MaxIdealTime == 41
\* The clock bound of SpecApp (ms).
MaxAppTime == 0
\* The clock bound of SpecPace (ms).
MaxPaceTime == 21
\* Largest interval passed to start_clicking in the tier specification.
MaxInterval == 25
\* Notifications the channel buffers between two polls.
MaxQueue == 2

\* -------------------------------------------------------- program constants
\* The largest thread_count start_clicking ever selects (line 55).
MaxThreads == 8

Threads == 0 .. (MaxThreads - 1)
Buttons == {"Left", "Right"}
\* Intervals passed to start_clicking in Spec: the degenerate 0 and the
\* two-thread tier (period 10).
StartIntervals == {0, 5}
\* Intervals passed to start_clicking in SpecPace: the one-thread tier (period 20).
PaceIntervals == {20}
IdealIntervals == {2, 4, 5, 19, 20}
\* interval_mode, click_interval and cps_value as a configuration file can
\* hold them (u64 values): the defaults with the field the mode reads set to
\* zero, to a rate of the one-thread tier, and to a rate above 1000 per second
StoredRates ==
    { [interval_mode |-> "Milliseconds", click_interval |-> 0, cps_value |-> 10],
      [interval_mode |-> "Milliseconds", click_interval |-> 20, cps_value |-> 10],
      [interval_mode |-> "CPS", click_interval |-> 100, cps_value |-> 0],
      [interval_mode |-> "CPS", click_interval |-> 100, cps_value |-> 50],
      [interval_mode |-> "CPS", click_interval |-> 100, cps_value |-> 1001] }
\* Option<Instant>::None
NoneInstant == -1

VARIABLES
    \* struct MouseController
    is_running,       \* AtomicBool
    click_count,      \* AtomicU64
    handles,          \* Vec<JoinHandle>: thread ids in push order
    start_time,       \* Option<Instant>
    \* the caller of the controller
    callerpc,         \* "idle" | "stopping" (inside stop_clicking, joining)
    \* Instant::now()
    now,
    \* what the worker closures captured: interval_ms, thread_count (the button
    \* only selects which pair of mouse events simulate_click sends)
    session,
    \* per worker thread
    pc,               \* position of the thread in the closure
    next_click,       \* let mut next_click
    iter_now,         \* let now (line 78) of the current iteration
    time_until_next,  \* let time_until_next (line 92)
    sleep_until,      \* instant at which thread::sleep (line 94) may return
    spin_until,       \* let spin_until (line 97)
    \* history variables (not program state)
    injected,         \* per worker: simulate_click calls since the last reset of click_count
    last_fire,        \* per worker: instant of its latest simulate_click, -1 if none
    discarded,        \* the value click_count held when start_clicking last reset it
    zero_start,       \* whether the latest call of start_clicking passed interval_ms = 0
    \* the owner of the controller
    lifetime          \* "alive" | "dropping" (inside Drop::drop) | "dropped"


ctrl == << is_running, click_count, handles, start_time >>
locals == << next_click, iter_now, time_until_next, sleep_until, spin_until >>
history == << injected, last_fire, discarded, zero_start >>

\* ------------------------------------------------ hotkey detector: constants
\* check_events, line 99: hold-mode polls closer than this are skipped (ms)
HoldPollMs == 10
\* check_events, line 132: period of the toggle-mode fallback poll (ms)
FallbackPollMs == 50
\* The detector's clock advances in steps of the shorter poll period.
TickMs == HoldPollMs

\* Option<T>: None, Some(x)
None == {}
Some(x) == {x}

\* config.rs, to_global_hotkey: the modifier names and key names it accepts
KnownModifiers == {"Ctrl", "Alt", "Shift", "Win"}
FunctionKeys == {"F1", "F2", "F3", "F4", "F5", "F6", "F7", "F8", "F9", "F10", "F11", "F12"}
Letters == {"A", "B", "C", "D", "E", "F", "G", "H", "I", "J", "K", "L", "M",
            "N", "O", "P", "Q", "R", "S", "T", "U", "V", "W", "X", "Y", "Z"}
RegistrableKeys ==
    FunctionKeys \cup Letters \cup
    {"Space", "Enter", "Esc", "Tab", "Home", "End", "PageUp", "PageDown",
     "Insert", "Delete", "CapsLock", "NumLock", "ScrollLock"}
\* hotkey_manager.rs, is_key_currently_pressed: the key names it queries
PolledKeys == FunctionKeys \cup Letters \cup {"Space", "Enter", "Esc", "Tab"}

\* Modifiers::CONTROL | ALT | SHIFT | SUPER
ModifierFlag(modifier) ==
    CASE modifier = "Ctrl" -> "CONTROL"
      [] modifier = "Alt" -> "ALT"
      [] modifier = "Shift" -> "SHIFT"
      [] modifier = "Win" -> "SUPER"

\* Code::F1 .. Code::KeyZ
Code(key) ==
    CASE key = "Esc" -> "Escape"
      [] key \in Letters -> "Key" \o key
      [] OTHER -> key

\* HotkeyConfig::to_global_hotkey: Ok((modifiers, code)) or Err
to_global_hotkey(config) ==
    IF config.modifiers \subseteq KnownModifiers /\ config.key \in RegistrableKeys
    THEN [ok |-> TRUE,
          modifiers |-> {ModifierFlag(m) : m \in config.modifiers},
          code |-> Code(config.key)]
    ELSE [ok |-> FALSE, modifiers |-> {}, code |-> ""]

\* HotKey::new(Some(modifiers), code): a value built from its two arguments
HotKey(modifiers, code) == [mods |-> modifiers, key |-> code]
\* hotkey.id(): read from the value after it was passed by copy to register,
\* so it is fixed by HotKey::new from (modifiers, code) alone: equal bindings
\* have equal ids
HotKeyId(hotkey) == << hotkey.mods, hotkey.key >>

\* The bindings the configuration file or the settings window supplies: two
\* keys that can be registered and polled, and a key name to_global_hotkey
\* rejects.
HotkeyConfigs ==
    { [modifiers |-> {}, key |-> "F1"],
      [modifiers |-> {}, key |-> "F2"],
      [modifiers |-> {}, key |-> "Pause"] }
\* AppConfig::default().toggle_hotkey
DefaultHotkey == [modifiers |-> {}, key |-> "F1"]
\* The physical keys of the keyboard that are pressed and released.
PhysKeys == {"F1", "F2"}
\* Bindings of the navigation block and of the function keys: both are names
\* to_global_hotkey accepts.
BindingConfigs ==
    { [modifiers |-> {}, key |-> "Home"],
      [modifiers |-> {}, key |-> "F1"] }
BindingKeys == {"Home", "F1"}

VARIABLES
    \* struct HotkeyManager
    manager,          \* GlobalHotKeyManager: the hotkeys this process holds registered
    receiver,         \* Receiver<GlobalHotKeyEvent>: notifications buffered in the channel
    toggle_hotkey,    \* Option<HotKey>
    toggle_hotkey_id, \* Option<u32>
    is_key_pressed,   \* bool: the edge flag
    current_hotkey,   \* Option<HotkeyConfig>
    poll_age,         \* Instant::now() - last_poll_time, saturated at FallbackPollMs
    \* struct AutoClickerApp / AppConfig
    hold_mode,        \* config.hold_mode
    config_hotkey,    \* config.toggle_hotkey
    \* environment
    keys_down,        \* the physical keys that are down (GetAsyncKeyState < 0)
    handler_event,    \* Option: the notification the event handler was called with
                      \* and has not yet sent into the channel
    \* history variables (not program state)
    ret,              \* what the latest check_events returned; "-" after update_hotkeys
    update_result,    \* what the latest update_hotkeys returned; "-" before the first
    emitted,          \* actions returned since the polled binding last went down
    press_reset,      \* reset_key_state ran since the polled binding last went down
    rebound_high,     \* update_hotkeys ran with the binding down and the edge flag
                      \* high, and the polled binding was not pressed anew since
    hold_open         \* HoldStart was returned and no HoldStop, rebind or
                      \* reset_key_state followed it

detector == << manager, receiver, toggle_hotkey, toggle_hotkey_id, is_key_pressed,
               current_hotkey, poll_age >>
app == << hold_mode, config_hotkey >>
env == << keys_down, handler_event >>
hkhistory == << ret, update_result, emitted, press_reset, rebound_high, hold_open >>
hotkeyvars == << detector, app, env, hkhistory >>
scheduler == << is_running, click_count, handles, start_time, callerpc, now, session,
                pc, next_click, iter_now, time_until_next, sleep_until, spin_until,
                injected, last_fire, discarded, zero_start, lifetime >>

VARIABLES
    \* struct AppConfig: the fields the start path reads
    config_is_running,  \* config.is_running
    click_interval,     \* config.click_interval (ms)
    cps_value,          \* config.cps_value
    interval_mode       \* config.interval_mode: "Milliseconds" | "CPS"

appconfig == << config_is_running, click_interval, cps_value, interval_mode >>

vars == << scheduler, hotkeyvars, appconfig >>

NoSession == [interval_ms |-> 0, thread_count |-> 0]

Live(w) == pc[w] \notin {"none", "exited"}

\* the tier selection with its first boundary off by one
thread_count_off_by_one(interval_ms) ==
    IF interval_ms > 20 THEN 1
    ELSE IF interval_ms >= 5 THEN 2
    ELSE IF interval_ms >= 2 THEN 4
    ELSE 8

\* lines 48-56
thread_count(interval_ms) ==
    IF interval_ms >= 20 THEN 1
    ELSE IF interval_ms >= 5 THEN 2
    ELSE IF interval_ms >= 2 THEN 4
    ELSE 8

\* line 73: the period of one worker
interval == session.interval_ms * session.thread_count
\* the phase offset as it would be if the workers were not staggered
offset_unstaggered(w) == 0

\* line 74: the phase offset of worker w
offset(w) == session.interval_ms * w

RECURSIVE SumTo(_, _)
SumTo(f, n) == IF n < 0 THEN 0 ELSE f[n] + SumTo(f, n - 1)
\* clicks injected by all workers since click_count was last reset
TotalInjected == SumTo(injected, MaxThreads - 1)

\* MouseController::new
MouseController_new ==
    /\ is_running = FALSE
    /\ click_count = 0
    /\ handles = << >>
    /\ start_time = NoneInstant
    /\ callerpc = "idle"
    /\ now = 0
    /\ session = NoSession
    /\ pc = [w \in Threads |-> "none"]
    /\ next_click = [w \in Threads |-> 0]
    /\ iter_now = [w \in Threads |-> 0]
    /\ time_until_next = [w \in Threads |-> 0]
    /\ sleep_until = [w \in Threads |-> 0]
    /\ spin_until = [w \in Threads |-> 0]
    /\ injected = [w \in Threads |-> 0]
    /\ last_fire = [w \in Threads |-> -1]
    /\ discarded = 0
    /\ zero_start = FALSE
    /\ lifetime = "alive"

\* AppConfig::default(), config.rs lines 150-167
AppConfig_default ==
    /\ config_is_running = FALSE
    /\ click_interval = 100
    /\ cps_value = 10
    /\ interval_mode = "Milliseconds"

\* HotkeyManager::new: nothing registered, an empty channel, the flag low,
\* last_poll_time = now
HotkeyManager_new ==
    /\ manager = {}
    /\ receiver = << >>
    /\ toggle_hotkey = None
    /\ toggle_hotkey_id = None
    /\ is_key_pressed = FALSE
    /\ current_hotkey = None
    /\ poll_age = 0
    /\ keys_down = {}
    /\ handler_event = None
    /\ ret = "-"
    /\ update_result = "-"
    /\ emitted = << >>
    /\ press_reset = FALSE
    /\ rebound_high = FALSE
    /\ hold_open = FALSE

\* The controller and the detector as constructed, with AppConfig::default()
Init ==
    /\ MouseController_new
    /\ HotkeyManager_new
    /\ hold_mode = FALSE
    /\ config_hotkey = DefaultHotkey
    /\ AppConfig_default

\* start_clicking as it would be without the early return of lines 34-36
start_clicking_unguarded(button, interval_ms) ==
    /\ callerpc = "idle"
    /\ zero_start' = (interval_ms = 0)
    /\ is_running' = TRUE
    /\ click_count' = 0
    /\ now' = 0
    /\ start_time' = 0
    /\ injected' = [w \in Threads |-> 0]
    /\ last_fire' = [w \in Threads |-> -1]
    /\ discarded' = click_count
    /\ IF interval_ms = 0
       THEN UNCHANGED << handles, session, pc >>
       ELSE LET n == thread_count(interval_ms) IN
            /\ session' = [interval_ms |-> interval_ms, thread_count |-> n]
            /\ pc' = [w \in Threads |-> IF w < n THEN "init" ELSE pc[w]]
            /\ handles' = handles \o [k \in 1 .. n |-> k - 1]
    /\ UNCHANGED << locals, callerpc >>

\* start_clicking as it would be without the counter reset of line 39
start_clicking_no_reset(button, interval_ms) ==
    /\ callerpc = "idle"
    /\ zero_start' = (interval_ms = 0)
    /\ IF is_running
       THEN UNCHANGED << ctrl, now, session, pc, locals, injected, last_fire, discarded >>
       ELSE /\ is_running' = TRUE
            /\ UNCHANGED click_count
            /\ now' = 0
            /\ start_time' = 0
            /\ injected' = [w \in Threads |-> 0]
            /\ last_fire' = [w \in Threads |-> -1]
            /\ discarded' = click_count
            /\ IF interval_ms = 0
               THEN UNCHANGED << handles, session, pc >>
               ELSE LET n == thread_count(interval_ms) IN
                    /\ session' = [interval_ms |-> interval_ms, thread_count |-> n]
                    /\ pc' = [w \in Threads |-> IF w < n THEN "init" ELSE pc[w]]
                    /\ handles' = handles \o [k \in 1 .. n |-> k - 1]
            /\ UNCHANGED locals
    /\ UNCHANGED callerpc

\* start_clicking as it would be without the interval_ms == 0 guard of line 43
start_clicking_no_zero_guard(button, interval_ms) ==
    /\ callerpc = "idle"
    /\ zero_start' = (interval_ms = 0)
    /\ IF is_running
       THEN UNCHANGED << ctrl, now, session, pc, locals, injected, last_fire, discarded >>
       ELSE LET n == thread_count(interval_ms) IN
            /\ is_running' = TRUE
            /\ click_count' = 0
            /\ now' = 0
            /\ start_time' = 0
            /\ injected' = [w \in Threads |-> 0]
            /\ last_fire' = [w \in Threads |-> -1]
            /\ discarded' = click_count
            /\ session' = [interval_ms |-> interval_ms, thread_count |-> n]
            /\ pc' = [w \in Threads |-> IF w < n THEN "init" ELSE pc[w]]
            /\ handles' = handles \o [k \in 1 .. n |-> k - 1]
            /\ UNCHANGED locals
    /\ UNCHANGED callerpc

\* MouseController::start_clicking(button, interval_ms)
start_clicking(button, interval_ms) ==
    /\ callerpc = "idle"
    /\ zero_start' = (interval_ms = 0)
    /\ IF is_running
       THEN UNCHANGED << ctrl, now, session, pc, locals, injected, last_fire, discarded >>
       ELSE /\ is_running' = TRUE
            /\ click_count' = 0
            \* self.start_time = Some(Instant::now()).  Instants are only ever
            \* compared with each other and none taken earlier is retained here
            \* (no thread is live, start_time is overwritten), so the origin of
            \* the clock is moved to this instant.
            /\ now' = 0
            /\ start_time' = 0
            /\ injected' = [w \in Threads |-> 0]
            /\ last_fire' = [w \in Threads |-> -1]
            /\ discarded' = click_count
            /\ IF interval_ms = 0
               THEN UNCHANGED << handles, session, pc >>
               ELSE LET n == thread_count(interval_ms) IN
                    /\ session' = [interval_ms |-> interval_ms, thread_count |-> n]
                    /\ pc' = [w \in Threads |-> IF w < n THEN "init" ELSE pc[w]]
                    /\ handles' = handles \o [k \in 1 .. n |-> k - 1]
            /\ UNCHANGED locals
    /\ UNCHANGED callerpc

\* stop_clicking as it would be if it joined without clearing the flag
stop_store_no_clear ==
    /\ callerpc = "idle"
    /\ callerpc' = "stopping"
    /\ UNCHANGED << ctrl, now, session, pc, locals, history >>

\* stop_clicking as it would be if it also cleared the counter
stop_store_reset_count ==
    /\ callerpc = "idle"
    /\ is_running' = FALSE
    /\ click_count' = 0
    /\ callerpc' = "stopping"
    /\ UNCHANGED << handles, start_time, now, session, pc, locals, history >>

\* MouseController::stop_clicking, line 110: clear the flag
stop_store ==
    /\ callerpc = "idle"
    /\ is_running' = FALSE
    /\ callerpc' = "stopping"
    /\ UNCHANGED << click_count, handles, start_time, now, session, pc, locals, history >>

\* stop_clicking as it would be if it joined one handle and discarded the rest
stop_join_first_only ==
    /\ callerpc = "stopping"
    /\ handles # << >>
    /\ pc[Head(handles)] = "exited"
    /\ handles' = << >>
    /\ pc' = [pc EXCEPT ![Head(handles)] = "none"]
    /\ session' = session
    /\ UNCHANGED << is_running, click_count, start_time, callerpc, now, locals, history >>

\* stop_clicking as it would be if the handle were dropped without waiting
\* for the thread to exit
stop_join_nowait ==
    /\ callerpc = "stopping"
    /\ handles # << >>
    /\ handles' = Tail(handles)
    /\ UNCHANGED << is_running, click_count, start_time, callerpc, now, session, pc,
                    locals, history >>

\* MouseController::stop_clicking, lines 113-115: join the next handle,
\* which blocks until that thread has exited
stop_join ==
    /\ callerpc = "stopping"
    /\ handles # << >>
    /\ pc[Head(handles)] = "exited"
    /\ handles' = Tail(handles)
    /\ pc' = [pc EXCEPT ![Head(handles)] = "none"]
    /\ session' = IF Tail(handles) = << >> THEN NoSession ELSE session
    /\ UNCHANGED << is_running, click_count, start_time, callerpc, now, locals, history >>

\* stop_clicking as it would be if it returned right after clearing the flag
stop_return_early ==
    /\ callerpc = "stopping"
    /\ callerpc' = "idle"
    /\ UNCHANGED << ctrl, now, session, pc, locals, history >>

\* MouseController::stop_clicking returns once the handles are drained
stop_return ==
    /\ callerpc = "stopping"
    /\ handles = << >>
    /\ callerpc' = "idle"
    /\ UNCHANGED << ctrl, now, session, pc, locals, history >>

\* worker, lines 73-75
w_init(w) ==
    /\ pc[w] = "init"
    /\ next_click' = [next_click EXCEPT ![w] = now + offset(w)]
    /\ pc' = [pc EXCEPT ![w] = "loop"]
    /\ UNCHANGED << ctrl, callerpc, now, session, iter_now, time_until_next,
                    sleep_until, spin_until, history >>

\* worker, line 77: while is_running.load()
w_loop(w) ==
    /\ pc[w] = "loop"
    /\ IF is_running
       THEN /\ pc' = [pc EXCEPT ![w] = "tick"]
            /\ UNCHANGED next_click
       ELSE /\ pc' = [pc EXCEPT ![w] = "exited"]
            /\ next_click' = [next_click EXCEPT ![w] = 0]
    /\ UNCHANGED << ctrl, callerpc, now, session, iter_now, time_until_next,
                    sleep_until, spin_until, history >>

\* worker, lines 78-80: let now = Instant::now(); if now >= next_click
w_tick(w) ==
    /\ pc[w] = "tick"
    /\ IF now >= next_click[w]
       THEN /\ pc' = [pc EXCEPT ![w] = "click"]
            /\ iter_now' = [iter_now EXCEPT ![w] = now]
       ELSE /\ pc' = [pc EXCEPT ![w] = "sleepcalc"]
            /\ UNCHANGED iter_now
    /\ UNCHANGED << ctrl, callerpc, now, session, next_click, time_until_next,
                    sleep_until, spin_until, history >>

\* worker, line 81: Self::simulate_click(button)
w_click(w) ==
    /\ pc[w] = "click"
    /\ injected' = [injected EXCEPT ![w] = @ + 1]
    /\ last_fire' = [last_fire EXCEPT ![w] = now]
    /\ pc' = [pc EXCEPT ![w] = "inc"]
    /\ UNCHANGED << ctrl, callerpc, now, session, locals, discarded, zero_start >>

\* the deadline update as it would be without the drift guard (lines 86-88)
advance_no_resync(nc, t) ==
    nc + interval

\* the deadline update as it would be without next_click += interval (line 83)
advance_without_step(nc, t) ==
    IF nc < t THEN t + interval ELSE nc

\* lines 83-88: the next deadline after a firing at captured instant t
advance(nc, t) ==
    IF nc + interval < t THEN t + interval ELSE nc + interval

\* the worker as it would be if it counted the click only while the flag is set
w_inc_if_running(w) ==
    /\ pc[w] = "inc"
    /\ click_count' = IF is_running THEN click_count + 1 ELSE click_count
    /\ next_click' = [next_click EXCEPT ![w] = advance(next_click[w], iter_now[w])]
    /\ iter_now' = [iter_now EXCEPT ![w] = 0]
    /\ pc' = [pc EXCEPT ![w] = "sleepcalc"]
    /\ UNCHANGED << is_running, handles, start_time, callerpc, now, session,
                    time_until_next, sleep_until, spin_until, history >>

\* the worker as it would be if it stored its own tally instead of fetch_add
w_inc_store(w) ==
    /\ pc[w] = "inc"
    /\ click_count' = injected[w]
    /\ next_click' = [next_click EXCEPT ![w] = advance(next_click[w], iter_now[w])]
    /\ iter_now' = [iter_now EXCEPT ![w] = 0]
    /\ pc' = [pc EXCEPT ![w] = "sleepcalc"]
    /\ UNCHANGED << is_running, handles, start_time, callerpc, now, session,
                    time_until_next, sleep_until, spin_until, history >>

\* worker, lines 82-88: click_count.fetch_add(1); next_click += interval; drift guard
w_inc(w) ==
    /\ pc[w] = "inc"
    \* fetch_add on the AtomicU64: one atomic step; 2^64 is out of reach of any run
    /\ click_count' = click_count + 1
    /\ next_click' = [next_click EXCEPT ![w] = advance(next_click[w], iter_now[w])]
    /\ iter_now' = [iter_now EXCEPT ![w] = 0]
    /\ pc' = [pc EXCEPT ![w] = "sleepcalc"]
    /\ UNCHANGED << is_running, handles, start_time, callerpc, now, session,
                    time_until_next, sleep_until, spin_until, history >>

\* worker, line 92: next_click.saturating_duration_since(Instant::now())
w_sleepcalc(w) ==
    /\ pc[w] = "sleepcalc"
    /\ LET t == IF next_click[w] > now THEN next_click[w] - now ELSE 0 IN
       IF t > 0
       THEN /\ time_until_next' = [time_until_next EXCEPT ![w] = t]
            /\ pc' = [pc EXCEPT ![w] = "wait"]
       ELSE /\ UNCHANGED time_until_next
            /\ pc' = [pc EXCEPT ![w] = "loop"]
    /\ UNCHANGED << ctrl, callerpc, now, session, next_click, iter_now,
                    sleep_until, spin_until, history >>

\* the worker as it would be if it slept for the whole of time_until_next
w_wait_full_sleep(w) ==
    /\ pc[w] = "wait"
    /\ IF time_until_next[w] > 2
       THEN /\ sleep_until' = [sleep_until EXCEPT ![w] = now + time_until_next[w]]
            /\ pc' = [pc EXCEPT ![w] = "sleep"]
            /\ UNCHANGED spin_until
       ELSE /\ spin_until' = [spin_until EXCEPT ![w] = now + time_until_next[w]]
            /\ pc' = [pc EXCEPT ![w] = "spin"]
            /\ UNCHANGED sleep_until
    /\ time_until_next' = [time_until_next EXCEPT ![w] = 0]
    /\ UNCHANGED << ctrl, callerpc, now, session, next_click, iter_now, history >>

\* worker, lines 93-97: enter thread::sleep(time_until_next - 1ms), or the spin-wait
w_wait(w) ==
    /\ pc[w] = "wait"
    /\ IF time_until_next[w] > 2
       THEN /\ sleep_until' = [sleep_until EXCEPT ![w] = now + time_until_next[w] - 1]
            /\ pc' = [pc EXCEPT ![w] = "sleep"]
            /\ UNCHANGED spin_until
       ELSE /\ spin_until' = [spin_until EXCEPT ![w] = now + time_until_next[w]]
            /\ pc' = [pc EXCEPT ![w] = "spin"]
            /\ UNCHANGED sleep_until
    /\ time_until_next' = [time_until_next EXCEPT ![w] = 0]
    /\ UNCHANGED << ctrl, callerpc, now, session, next_click, iter_now, history >>

\* worker, line 94: thread::sleep returns no earlier than the requested duration
w_sleep(w) ==
    /\ pc[w] = "sleep"
    /\ now >= sleep_until[w]
    /\ sleep_until' = [sleep_until EXCEPT ![w] = 0]
    /\ pc' = [pc EXCEPT ![w] = "loop"]
    /\ UNCHANGED << ctrl, callerpc, now, session, next_click, iter_now,
                    time_until_next, spin_until, history >>

\* worker, lines 98-100: the spin-wait ends at spin_until or when the flag is cleared
w_spin(w) ==
    /\ pc[w] = "spin"
    /\ ~ (now < spin_until[w] /\ is_running)
    /\ spin_until' = [spin_until EXCEPT ![w] = 0]
    /\ pc' = [pc EXCEPT ![w] = "loop"]
    /\ UNCHANGED << ctrl, callerpc, now, session, next_click, iter_now,
                    time_until_next, sleep_until, history >>

\* The monotonic clock advances by one millisecond.  Up to the bound max_time
\* it advances freely (threads are delayed for any length of time).  Past the
\* bound it advances only while stop_clicking is blocked and every thread
\* still live is inside thread::sleep: those sleeps always end, so a pending
\* join can always complete.
Tick(max_time) ==
    /\ \/ now < max_time
       \/ /\ callerpc = "stopping"
          /\ \E w \in Threads : Live(w)
          /\ \A w \in Threads : Live(w) => pc[w] = "sleep" /\ now < sleep_until[w]
    /\ now' = now + 1
    /\ UNCHANGED << ctrl, callerpc, session, pc, locals, history >>

\* Drop for MouseController as it would be if it released the controller
\* without calling stop_clicking
Drop_drop_forget ==
    /\ lifetime = "alive"
    /\ callerpc = "idle"
    /\ lifetime' = "dropped"
    /\ UNCHANGED << ctrl, callerpc, now, session, pc, locals, history >>

\* Drop::drop, line 158: the owner releases the controller, drop enters
\* stop_clicking (the store of line 110)
Drop_drop ==
    /\ lifetime = "alive"
    /\ stop_store
    /\ lifetime' = "dropping"

\* Drop::drop returns when its call of stop_clicking returns; the fields are
\* released after that
Drop_return ==
    /\ lifetime = "dropping"
    /\ stop_return
    /\ lifetime' = "dropped"

\* a step of worker thread w
worker(w) ==
    \/ w_init(w)
    \/ w_loop(w)
    \/ w_tick(w)
    \/ w_click(w)
    \/ w_inc(w)
    \/ w_sleepcalc(w)
    \/ w_wait(w)
    \/ w_sleep(w)
    \/ w_spin(w)

\* The scheduler with its caller, its worker threads and the clock, every
\* interleaving: sessions of the two-thread tier.
Next ==
    \/ \E b \in Buttons, i \in StartIntervals : start_clicking(b, i) /\ UNCHANGED << hotkeyvars, lifetime, appconfig >>
    \/ stop_store /\ UNCHANGED << hotkeyvars, lifetime, appconfig >>
    \/ stop_join /\ UNCHANGED << hotkeyvars, lifetime, appconfig >>
    \/ stop_return /\ UNCHANGED << hotkeyvars, lifetime, appconfig >>
    \/ \E w \in Threads : worker(w) /\ UNCHANGED << hotkeyvars, lifetime, appconfig >>
    \/ Tick(MaxTime) /\ UNCHANGED << hotkeyvars, lifetime, appconfig >>

Spec == Init /\ [][Next]_vars

\* The same system over a longer stretch of time, sessions of the one-thread tier.
NextPace ==
    \/ \E b \in Buttons, i \in PaceIntervals : start_clicking(b, i) /\ UNCHANGED << hotkeyvars, lifetime, appconfig >>
    \/ stop_store /\ UNCHANGED << hotkeyvars, lifetime, appconfig >>
    \/ stop_join /\ UNCHANGED << hotkeyvars, lifetime, appconfig >>
    \/ stop_return /\ UNCHANGED << hotkeyvars, lifetime, appconfig >>
    \/ \E w \in Threads : worker(w) /\ UNCHANGED << hotkeyvars, lifetime, appconfig >>
    \/ Tick(MaxPaceTime) /\ UNCHANGED << hotkeyvars, lifetime, appconfig >>

SpecPace == Init /\ [][NextPace]_vars

\* start_clicking for every interval up to MaxInterval, under the schedules in
\* which the spawned threads first get the processor when the caller blocks
\* in join: every tier is spawned, and every thread then sees the cleared flag.
NextTier ==
    \/ \E b \in Buttons, i \in 0 .. MaxInterval : start_clicking(b, i) /\ UNCHANGED << hotkeyvars, lifetime, appconfig >>
    \/ stop_store /\ UNCHANGED << hotkeyvars, lifetime, appconfig >>
    \/ stop_join /\ UNCHANGED << hotkeyvars, lifetime, appconfig >>
    \/ stop_return /\ UNCHANGED << hotkeyvars, lifetime, appconfig >>
    \/ \E w \in Threads : callerpc = "stopping" /\ w_init(w) /\ UNCHANGED << hotkeyvars, lifetime, appconfig >>
    \/ \E w \in Threads : callerpc = "stopping" /\ w_loop(w) /\ UNCHANGED << hotkeyvars, lifetime, appconfig >>

SpecTier == Init /\ [][NextTier]_vars

\* The controller with its owner: calls are made while the controller is
\* alive, it is dropped in any state in which no call is in progress, and
\* the threads and the clock go on whatever the owner does.
NextDrop ==
    \/ /\ lifetime = "alive"
       /\ \E b \in Buttons, i \in StartIntervals : start_clicking(b, i)
       /\ UNCHANGED << hotkeyvars, lifetime, appconfig >>
    \/ lifetime = "alive" /\ stop_store /\ UNCHANGED << hotkeyvars, lifetime, appconfig >>
    \/ stop_join /\ UNCHANGED << hotkeyvars, lifetime, appconfig >>
    \/ lifetime = "alive" /\ stop_return /\ UNCHANGED << hotkeyvars, lifetime, appconfig >>
    \/ Drop_drop /\ UNCHANGED << hotkeyvars, appconfig >>
    \/ Drop_return /\ UNCHANGED << hotkeyvars, appconfig >>
    \/ \E w \in Threads : worker(w) /\ UNCHANGED << hotkeyvars, lifetime, appconfig >>
    \/ Tick(MaxTime) /\ UNCHANGED << hotkeyvars, lifetime, appconfig >>

SpecDrop == Init /\ [][NextDrop]_vars

\* The same system under fair scheduling, over a stretch of MaxFairTime ms:
\* the operating system gives every worker thread that can take a step the
\* processor again and again, the clock goes on, and the thread inside
\* stop_clicking is scheduled too (join returns once the thread has exited).
\* No fairness is assumed of the calls the caller chooses to make.
NextFair ==
    \/ \E b \in Buttons, i \in StartIntervals : start_clicking(b, i) /\ UNCHANGED << hotkeyvars, lifetime, appconfig >>
    \/ stop_store /\ UNCHANGED << hotkeyvars, lifetime, appconfig >>
    \/ stop_join /\ UNCHANGED << hotkeyvars, lifetime, appconfig >>
    \/ stop_return /\ UNCHANGED << hotkeyvars, lifetime, appconfig >>
    \/ \E w \in Threads : worker(w) /\ UNCHANGED << hotkeyvars, lifetime, appconfig >>
    \/ Tick(MaxFairTime) /\ UNCHANGED << hotkeyvars, lifetime, appconfig >>

Fairness ==
    /\ \A w \in Threads : WF_vars(worker(w) /\ UNCHANGED << hotkeyvars, lifetime, appconfig >>)
    /\ WF_vars(Tick(MaxFairTime) /\ UNCHANGED << hotkeyvars, lifetime, appconfig >>)
    /\ WF_vars(stop_join /\ UNCHANGED << hotkeyvars, lifetime, appconfig >>)
    /\ WF_vars(stop_return /\ UNCHANGED << hotkeyvars, lifetime, appconfig >>)

SpecFair == Init /\ [][NextFair]_vars /\ Fairness

\* worker w cannot take a step until the clock advances: it is inside
\* thread::sleep, in the spin-wait before spin_until, or gone
Blocked(w) ==
    \/ ~Live(w)
    \/ pc[w] = "sleep" /\ now < sleep_until[w]
    \/ pc[w] = "spin" /\ now < spin_until[w] /\ is_running

\* Sessions of the one-, two- and four-thread tiers with no scheduling delay:
\* a thread that can take a step takes it before the clock advances (the spawned threads
\* start at the instant of the start call, a sleep returns at the instant it
\* was asked to, the spin-wait ends at spin_until).
NextIdeal ==
    \/ \E b \in Buttons, i \in IdealIntervals : start_clicking(b, i) /\ UNCHANGED << hotkeyvars, lifetime, appconfig >>
    \/ stop_store /\ UNCHANGED << hotkeyvars, lifetime, appconfig >>
    \/ stop_join /\ UNCHANGED << hotkeyvars, lifetime, appconfig >>
    \/ stop_return /\ UNCHANGED << hotkeyvars, lifetime, appconfig >>
    \/ \E w \in Threads : worker(w) /\ UNCHANGED << hotkeyvars, lifetime, appconfig >>
    \/ /\ \A w \in Threads : Blocked(w)
       /\ Tick(MaxIdealTime)
       /\ UNCHANGED << hotkeyvars, lifetime, appconfig >>

SpecIdeal == Init /\ [][NextIdeal]_vars

\* ------------------------------------------------------- the hotkey detector
\* GetAsyncKeyState(vk) < 0 for the virtual key of a key name
KeyDown(key, down) == key \in PolledKeys /\ key \in down
\* GetAsyncKeyState < 0 for one of the virtual keys of a modifier name
ModifierDown(modifier, down) == modifier \in KnownModifiers /\ modifier \in down

\* is_key_currently_pressed (lines 168-233) against the keys in `down`, for
\* the binding option `binding`
Pressed(binding, down) ==
    \E hotkey_config \in binding :
        /\ KeyDown(hotkey_config.key, down)
        /\ \A modifier \in hotkey_config.modifiers : ModifierDown(modifier, down)

is_key_currently_pressed == Pressed(current_hotkey, keys_down)

\* The operating system's view: the key and the modifiers of a registered
\* hotkey are down.
HotKeyDown(hotkey, down) ==
    /\ \E key \in down : Code(key) = hotkey.key
    /\ \A flag \in hotkey.mods :
           \E modifier \in down \cap KnownModifiers : ModifierFlag(modifier) = flag

\* A notification: the id of the hotkey that fired; `fresh` records that the
\* registration that produced it has not been replaced since.
Notification(hotkey) == [id |-> HotKeyId(hotkey), fresh |-> TRUE]

\* reset_key_state as it would be if it left the edge flag as it is
reset_key_state_keep_flag ==
    /\ UNCHANGED is_key_pressed
    /\ receiver' = << >>
    /\ press_reset' = TRUE
    /\ hold_open' = FALSE

\* reset_key_state as it would be without the drain of line 91
reset_key_state_keep_queue ==
    /\ is_key_pressed' = FALSE
    /\ UNCHANGED receiver
    /\ press_reset' = TRUE
    /\ hold_open' = FALSE

\* reset_key_state, lines 88-92: clear the flag, empty the channel
reset_key_state ==
    /\ is_key_pressed' = FALSE
    /\ receiver' = << >>
    /\ press_reset' = TRUE
    /\ hold_open' = FALSE

\* update_hotkeys as it would be if a successful registration did not store
\* the handle
update_hotkeys_handle_lost(toggle_config, conflict) ==
    LET global == to_global_hotkey(toggle_config)
        new_hotkey == HotKey(global.modifiers, global.code)
    IN  /\ reset_key_state
        /\ handler_event' = {[n EXCEPT !.fresh = FALSE] : n \in handler_event}
        /\ IF global.ok /\ ~conflict
           THEN /\ manager' = (manager \ toggle_hotkey) \cup {new_hotkey}
                /\ toggle_hotkey_id' = Some(HotKeyId(new_hotkey))
                /\ toggle_hotkey' = None
                /\ current_hotkey' = Some(toggle_config)
                /\ update_result' = "Ok"
           ELSE /\ manager' = manager \ toggle_hotkey
                /\ toggle_hotkey_id' = None
                /\ toggle_hotkey' = None
                /\ UNCHANGED current_hotkey
                /\ update_result' = IF global.ok THEN "ErrConflict" ELSE "ErrConfig"
        /\ rebound_high' = IF current_hotkey' = current_hotkey
                           THEN rebound_high \/ (is_key_pressed /\ is_key_currently_pressed)
                           ELSE FALSE
        /\ ret' = "-"
        /\ UNCHANGED << poll_age, keys_down, emitted >>

\* update_hotkeys, lines 47-85.  `conflict`: manager.register fails because
\* the binding is claimed elsewhere.  unregister of a hotkey this manager
\* registered succeeds.
update_hotkeys(toggle_config, conflict) ==
    LET global == to_global_hotkey(toggle_config)
        new_hotkey == HotKey(global.modifiers, global.code)
    IN  /\ reset_key_state
        \* the registration that produced the notification the handler still
        \* holds is gone
        /\ handler_event' = {[n EXCEPT !.fresh = FALSE] : n \in handler_event}
        /\ IF global.ok /\ ~conflict
           THEN /\ manager' = (manager \ toggle_hotkey) \cup {new_hotkey}
                /\ toggle_hotkey_id' = Some(HotKeyId(new_hotkey))
                /\ toggle_hotkey' = Some(new_hotkey)
                /\ current_hotkey' = Some(toggle_config)
                /\ update_result' = "Ok"
           ELSE /\ manager' = manager \ toggle_hotkey
                /\ toggle_hotkey_id' = None
                /\ toggle_hotkey' = None
                /\ UNCHANGED current_hotkey
                /\ update_result' = IF global.ok THEN "ErrConflict" ELSE "ErrConfig"
        /\ rebound_high' = IF current_hotkey' = current_hotkey
                           THEN rebound_high \/ (is_key_pressed /\ is_key_currently_pressed)
                           ELSE FALSE
        /\ ret' = "-"
        /\ UNCHANGED << poll_age, keys_down, emitted >>

\* check_key_hold_state as it would be if it reported the sampled level and
\* not its edges
check_key_hold_state_level ==
    IF is_key_currently_pressed
    THEN is_key_pressed' = TRUE /\ ret' = "HoldStart"
    ELSE IF is_key_pressed
         THEN is_key_pressed' = FALSE /\ ret' = "HoldStop"
         ELSE UNCHANGED is_key_pressed /\ ret' = "None"

\* check_key_hold_state as it would be if the falling edge left the flag set
check_key_hold_state_flag_kept ==
    IF is_key_currently_pressed /\ ~is_key_pressed
    THEN is_key_pressed' = TRUE /\ ret' = "HoldStart"
    ELSE IF ~is_key_currently_pressed /\ is_key_pressed
         THEN is_key_pressed' = is_key_pressed /\ ret' = "HoldStop"
         ELSE UNCHANGED is_key_pressed /\ ret' = "None"

\* check_key_hold_state, lines 150-165
check_key_hold_state ==
    IF is_key_currently_pressed /\ ~is_key_pressed
    THEN is_key_pressed' = TRUE /\ ret' = "HoldStart"
    ELSE IF ~is_key_currently_pressed /\ is_key_pressed
         THEN is_key_pressed' = FALSE /\ ret' = "HoldStop"
         ELSE UNCHANGED is_key_pressed /\ ret' = "None"

\* check_events as it would be if the event path did not test the edge flag
check_events_no_debounce(hold) ==
    /\ IF hold
       THEN IF poll_age < HoldPollMs
            THEN /\ ret' = "None"
                 /\ UNCHANGED << poll_age, receiver, is_key_pressed >>
            ELSE /\ poll_age' = 0
                 /\ receiver' = << >>
                 /\ check_key_hold_state
       ELSE LET event_triggered ==
                    \E i \in DOMAIN receiver : Some(receiver[i].id) = toggle_hotkey_id
                pressed_now == is_key_currently_pressed
            IN  /\ receiver' = << >>
                /\ IF event_triggered /\ pressed_now
                   THEN /\ is_key_pressed' = TRUE
                        /\ ret' = "Toggle"
                        /\ UNCHANGED poll_age
                   ELSE IF poll_age >= FallbackPollMs
                        THEN /\ poll_age' = 0
                             /\ IF pressed_now /\ ~is_key_pressed
                                THEN is_key_pressed' = TRUE /\ ret' = "Toggle"
                                ELSE IF ~pressed_now /\ is_key_pressed
                                     THEN is_key_pressed' = FALSE /\ ret' = "None"
                                     ELSE UNCHANGED is_key_pressed /\ ret' = "None"
                        ELSE /\ ret' = "None"
                             /\ UNCHANGED << poll_age, is_key_pressed >>
    /\ emitted' = IF ret' # "None" /\ ~press_reset THEN Append(emitted, ret') ELSE emitted
    /\ hold_open' = IF ret' = "HoldStart" THEN TRUE
                    ELSE IF ret' = "HoldStop" THEN FALSE ELSE hold_open
    /\ UNCHANGED << manager, toggle_hotkey, toggle_hotkey_id, current_hotkey, env,
                    update_result, press_reset, rebound_high >>

\* check_events as it would be if any drained notification counted, whatever its id
check_events_any_id(hold) ==
    /\ IF hold
       THEN IF poll_age < HoldPollMs
            THEN /\ ret' = "None"
                 /\ UNCHANGED << poll_age, receiver, is_key_pressed >>
            ELSE /\ poll_age' = 0
                 /\ receiver' = << >>
                 /\ check_key_hold_state
       ELSE LET event_triggered ==
                    receiver # << >>
                pressed_now == is_key_currently_pressed
            IN  /\ receiver' = << >>
                /\ IF event_triggered /\ pressed_now /\ ~is_key_pressed
                   THEN /\ is_key_pressed' = TRUE
                        /\ ret' = "Toggle"
                        /\ UNCHANGED poll_age
                   ELSE IF poll_age >= FallbackPollMs
                        THEN /\ poll_age' = 0
                             /\ IF pressed_now /\ ~is_key_pressed
                                THEN is_key_pressed' = TRUE /\ ret' = "Toggle"
                                ELSE IF ~pressed_now /\ is_key_pressed
                                     THEN is_key_pressed' = FALSE /\ ret' = "None"
                                     ELSE UNCHANGED is_key_pressed /\ ret' = "None"
                        ELSE /\ ret' = "None"
                             /\ UNCHANGED << poll_age, is_key_pressed >>
    /\ emitted' = IF ret' # "None" /\ ~press_reset THEN Append(emitted, ret') ELSE emitted
    /\ hold_open' = IF ret' = "HoldStart" THEN TRUE
                    ELSE IF ret' = "HoldStop" THEN FALSE ELSE hold_open
    /\ UNCHANGED << manager, toggle_hotkey, toggle_hotkey_id, current_hotkey, env,
                    update_result, press_reset, rebound_high >>

\* check_events as it would be without the fallback poll of lines 128-145
check_events_no_fallback(hold) ==
    /\ IF hold
       THEN IF poll_age < HoldPollMs
            THEN /\ ret' = "None"
                 /\ UNCHANGED << poll_age, receiver, is_key_pressed >>
            ELSE /\ poll_age' = 0
                 /\ receiver' = << >>
                 /\ check_key_hold_state
       ELSE LET event_triggered ==
                    \E i \in DOMAIN receiver : Some(receiver[i].id) = toggle_hotkey_id
                pressed_now == is_key_currently_pressed
            IN  /\ receiver' = << >>
                /\ IF event_triggered /\ pressed_now /\ ~is_key_pressed
                   THEN /\ is_key_pressed' = TRUE
                        /\ ret' = "Toggle"
                        /\ UNCHANGED poll_age
                   ELSE /\ ret' = "None"
                        /\ UNCHANGED << poll_age, is_key_pressed >>
    /\ emitted' = IF ret' # "None" /\ ~press_reset THEN Append(emitted, ret') ELSE emitted
    /\ hold_open' = IF ret' = "HoldStart" THEN TRUE
                    ELSE IF ret' = "HoldStop" THEN FALSE ELSE hold_open
    /\ UNCHANGED << manager, toggle_hotkey, toggle_hotkey_id, current_hotkey, env,
                    update_result, press_reset, rebound_high >>

\* check_events as it would be without the 10 ms limit of lines 97-101
check_events_unthrottled(hold) ==
    /\ IF hold
       THEN IF FALSE
            THEN /\ ret' = "None"
                 /\ UNCHANGED << poll_age, receiver, is_key_pressed >>
            ELSE /\ poll_age' = 0
                 /\ receiver' = << >>
                 /\ check_key_hold_state
       ELSE LET event_triggered ==
                    \E i \in DOMAIN receiver : Some(receiver[i].id) = toggle_hotkey_id
                pressed_now == is_key_currently_pressed
            IN  /\ receiver' = << >>
                /\ IF event_triggered /\ pressed_now /\ ~is_key_pressed
                   THEN /\ is_key_pressed' = TRUE
                        /\ ret' = "Toggle"
                        /\ UNCHANGED poll_age
                   ELSE IF poll_age >= FallbackPollMs
                        THEN /\ poll_age' = 0
                             /\ IF pressed_now /\ ~is_key_pressed
                                THEN is_key_pressed' = TRUE /\ ret' = "Toggle"
                                ELSE IF ~pressed_now /\ is_key_pressed
                                     THEN is_key_pressed' = FALSE /\ ret' = "None"
                                     ELSE UNCHANGED is_key_pressed /\ ret' = "None"
                        ELSE /\ ret' = "None"
                             /\ UNCHANGED << poll_age, is_key_pressed >>
    /\ emitted' = IF ret' # "None" /\ ~press_reset THEN Append(emitted, ret') ELSE emitted
    /\ hold_open' = IF ret' = "HoldStart" THEN TRUE
                    ELSE IF ret' = "HoldStop" THEN FALSE ELSE hold_open
    /\ UNCHANGED << manager, toggle_hotkey, toggle_hotkey_id, current_hotkey, env,
                    update_result, press_reset, rebound_high >>

\* check_events, lines 94-148 (the Windows build)
check_events(hold) ==
    /\ IF hold
       THEN IF poll_age < HoldPollMs
            THEN /\ ret' = "None"
                 /\ UNCHANGED << poll_age, receiver, is_key_pressed >>
            ELSE /\ poll_age' = 0
                 /\ receiver' = << >>
                 /\ check_key_hold_state
       ELSE LET event_triggered ==
                    \E i \in DOMAIN receiver : Some(receiver[i].id) = toggle_hotkey_id
                pressed_now == is_key_currently_pressed
            IN  /\ receiver' = << >>
                /\ IF event_triggered /\ pressed_now /\ ~is_key_pressed
                   THEN /\ is_key_pressed' = TRUE
                        /\ ret' = "Toggle"
                        /\ UNCHANGED poll_age
                   ELSE IF poll_age >= FallbackPollMs
                        THEN /\ poll_age' = 0
                             /\ IF pressed_now /\ ~is_key_pressed
                                THEN is_key_pressed' = TRUE /\ ret' = "Toggle"
                                ELSE IF ~pressed_now /\ is_key_pressed
                                     THEN is_key_pressed' = FALSE /\ ret' = "None"
                                     ELSE UNCHANGED is_key_pressed /\ ret' = "None"
                        ELSE /\ ret' = "None"
                             /\ UNCHANGED << poll_age, is_key_pressed >>
    /\ emitted' = IF ret' # "None" /\ ~press_reset THEN Append(emitted, ret') ELSE emitted
    /\ hold_open' = IF ret' = "HoldStart" THEN TRUE
                    ELSE IF ret' = "HoldStop" THEN FALSE ELSE hold_open
    /\ UNCHANGED << manager, toggle_hotkey, toggle_hotkey_id, current_hotkey, env,
                    update_result, press_reset, rebound_high >>

\* AutoClickerApp::new, app.rs lines 31-45: the first update_hotkeys, with the
\* binding of the loaded configuration
AutoClickerApp_new(conflict) ==
    /\ update_result = "-"
    /\ update_hotkeys(config_hotkey, conflict)
    /\ UNCHANGED app

\* apply_hotkey_settings, app.rs lines 539-554
apply_hotkey_settings(temp_toggle_hotkey, conflict) ==
    /\ update_result # "-"
    /\ config_hotkey' = temp_toggle_hotkey
    /\ update_hotkeys(temp_toggle_hotkey, conflict)
    /\ UNCHANGED hold_mode

\* the hold_mode checkbox as it would be if it only stored the new mode
hold_mode_changed_no_reset(conflict) ==
    /\ update_result # "-"
    /\ hold_mode' = ~hold_mode
    /\ UNCHANGED << detector, config_hotkey, env, hkhistory >>

\* the hold_mode checkbox, app.rs lines 276-283
hold_mode_changed(conflict) ==
    /\ update_result # "-"
    /\ hold_mode' = ~hold_mode
    /\ reset_key_state
    /\ update_hotkeys(config_hotkey, conflict)
    /\ UNCHANGED config_hotkey

\* handle_hotkey_events, app.rs lines 68-70: the poll of the UI tick
poll ==
    /\ update_result # "-"
    /\ check_events(hold_mode)
    /\ UNCHANGED app

\* A physical key goes down.  When this completes the polled binding, a new
\* press of it begins.
key_down(key) ==
    /\ key \notin keys_down
    /\ keys_down' = keys_down \cup {key}
    /\ IF ~Pressed(current_hotkey, keys_down) /\ Pressed(current_hotkey, keys_down')
       THEN emitted' = << >> /\ press_reset' = FALSE /\ rebound_high' = FALSE
       ELSE UNCHANGED << emitted, press_reset, rebound_high >>
    /\ UNCHANGED << detector, app, handler_event, ret, update_result, hold_open >>

\* A physical key goes up.
key_up(key) ==
    /\ key \in keys_down
    /\ keys_down' = keys_down \ {key}
    /\ UNCHANGED << detector, app, handler_event, hkhistory >>

\* The operating system calls the event handler with a notification for a
\* registered hotkey that is down: on the press and again on every key
\* repeat.  The handler is called with one notification at a time.  A
\* stalled channel is one in which this step or the next is not taken.
os_post ==
    /\ handler_event = None
    /\ \E registered \in manager :
           /\ HotKeyDown(registered, keys_down)
           /\ handler_event' = Some(Notification(registered))
    /\ UNCHANGED << detector, app, keys_down, hkhistory >>

\* HotkeyManager::new, lines 32-34: the event handler sends the notification
\* it was called with into the channel
event_handler ==
    /\ Len(receiver) < MaxQueue
    /\ \E event \in handler_event :
           /\ receiver' = Append(receiver, event)
           /\ handler_event' = None
    /\ UNCHANGED << manager, toggle_hotkey, toggle_hotkey_id, is_key_pressed,
                    current_hotkey, poll_age, app, keys_down, hkhistory >>

\* Instant::now() advances by TickMs.
PollTick ==
    /\ poll_age < FallbackPollMs
    /\ poll_age' = IF poll_age + TickMs > FallbackPollMs THEN FallbackPollMs
                   ELSE poll_age + TickMs
    /\ UNCHANGED << manager, receiver, toggle_hotkey, toggle_hotkey_id, is_key_pressed,
                    current_hotkey, app, env, hkhistory >>

\* The detector as constructed, with the configuration AppConfig::load returns
InitHotkey ==
    /\ MouseController_new
    /\ HotkeyManager_new
    /\ hold_mode \in BOOLEAN
    /\ config_hotkey \in HotkeyConfigs
    /\ AppConfig_default

NextHotkey ==
    \/ \E conflict \in BOOLEAN : AutoClickerApp_new(conflict) /\ UNCHANGED << scheduler, appconfig >>
    \/ \E c \in HotkeyConfigs, conflict \in BOOLEAN :
           apply_hotkey_settings(c, conflict) /\ UNCHANGED << scheduler, appconfig >>
    \/ \E conflict \in BOOLEAN : hold_mode_changed(conflict) /\ UNCHANGED << scheduler, appconfig >>
    \/ poll /\ UNCHANGED << scheduler, appconfig >>
    \/ \E key \in PhysKeys : key_down(key) /\ UNCHANGED << scheduler, appconfig >>
    \/ \E key \in PhysKeys : key_up(key) /\ UNCHANGED << scheduler, appconfig >>
    \/ os_post /\ UNCHANGED << scheduler, appconfig >>
    \/ event_handler /\ UNCHANGED << scheduler, appconfig >>
    \/ PollTick /\ UNCHANGED << scheduler, appconfig >>

SpecHotkey == InitHotkey /\ [][NextHotkey]_vars

\* The detector with bindings of both kinds of key names.
InitBinding ==
    /\ MouseController_new
    /\ HotkeyManager_new
    /\ hold_mode \in BOOLEAN
    /\ config_hotkey \in BindingConfigs
    /\ AppConfig_default

NextBinding ==
    \/ \E conflict \in BOOLEAN : AutoClickerApp_new(conflict) /\ UNCHANGED << scheduler, appconfig >>
    \/ \E c \in BindingConfigs, conflict \in BOOLEAN :
           apply_hotkey_settings(c, conflict) /\ UNCHANGED << scheduler, appconfig >>
    \/ \E conflict \in BOOLEAN : hold_mode_changed(conflict) /\ UNCHANGED << scheduler, appconfig >>
    \/ poll /\ UNCHANGED << scheduler, appconfig >>
    \/ \E key \in BindingKeys : key_down(key) /\ UNCHANGED << scheduler, appconfig >>
    \/ \E key \in BindingKeys : key_up(key) /\ UNCHANGED << scheduler, appconfig >>
    \/ os_post /\ UNCHANGED << scheduler, appconfig >>
    \/ event_handler /\ UNCHANGED << scheduler, appconfig >>
    \/ PollTick /\ UNCHANGED << scheduler, appconfig >>

SpecBinding == InitBinding /\ [][NextBinding]_vars

\* AppConfig::get_effective_interval, config.rs lines 236-247 (u64 division)
get_effective_interval ==
    IF interval_mode = "Milliseconds" THEN click_interval
    ELSE IF cps_value > 0 THEN 1000 \div cps_value ELSE 1000

\* AutoClickerApp::start_clicking, app.rs lines 99-134
AutoClickerApp_start_clicking ==
    /\ callerpc = "idle"
    /\ IF (interval_mode = "Milliseconds" /\ click_interval > 0)
           \/ (interval_mode = "CPS" /\ cps_value > 0)
       THEN /\ \E mouse_button \in Buttons :
                   start_clicking(mouse_button, get_effective_interval)
            /\ config_is_running' = TRUE
            /\ UNCHANGED << click_interval, cps_value, interval_mode, lifetime >>
       ELSE UNCHANGED << scheduler, appconfig >>

\* AutoClickerApp::stop_clicking, app.rs line 137: the call of
\* MouseController::stop_clicking begins
AutoClickerApp_stop_clicking ==
    /\ stop_store
    /\ UNCHANGED << lifetime, appconfig >>

\* AutoClickerApp::stop_clicking, app.rs lines 137-138: the call of the
\* controller returns, config.is_running = false
AutoClickerApp_stop_return ==
    /\ stop_return
    /\ config_is_running' = FALSE
    /\ UNCHANGED << click_interval, cps_value, interval_mode, lifetime >>

\* handle_hotkey_events as it would be if Toggle always started
handle_hotkey_events_toggle_starts ==
    /\ callerpc = "idle"
    /\ poll
    /\ IF ret' = "Toggle"
       THEN AutoClickerApp_start_clicking
       ELSE IF ret' = "HoldStart"
            THEN IF ~config_is_running
                 THEN AutoClickerApp_start_clicking
                 ELSE UNCHANGED << scheduler, appconfig >>
            ELSE IF ret' = "HoldStop"
                 THEN IF config_is_running
                      THEN AutoClickerApp_stop_clicking
                      ELSE UNCHANGED << scheduler, appconfig >>
                 ELSE UNCHANGED << scheduler, appconfig >>

\* handle_hotkey_events, app.rs lines 68-95: the poll of the UI tick and the
\* dispatch of the action it returns
handle_hotkey_events ==
    /\ callerpc = "idle"
    /\ poll
    /\ IF ret' = "Toggle"
       THEN IF config_is_running
            THEN AutoClickerApp_stop_clicking
            ELSE AutoClickerApp_start_clicking
       ELSE IF ret' = "HoldStart"
            THEN IF ~config_is_running
                 THEN AutoClickerApp_start_clicking
                 ELSE UNCHANGED << scheduler, appconfig >>
            ELSE IF ret' = "HoldStop"
                 THEN IF config_is_running
                      THEN AutoClickerApp_stop_clicking
                      ELSE UNCHANGED << scheduler, appconfig >>
                 ELSE UNCHANGED << scheduler, appconfig >>

\* the start / stop button, app.rs lines 297-308
button_clicked ==
    /\ callerpc = "idle"
    /\ update_result # "-"
    /\ IF config_is_running
       THEN AutoClickerApp_stop_clicking
       ELSE AutoClickerApp_start_clicking
    /\ UNCHANGED hotkeyvars

\* The application as AutoClickerApp::new builds it: the configuration is
\* what AppConfig::load read from the file, the controller and the detector
\* are new.
InitApp ==
    /\ MouseController_new
    /\ HotkeyManager_new
    /\ hold_mode \in BOOLEAN
    /\ config_hotkey = DefaultHotkey
    /\ config_is_running \in BOOLEAN
    /\ \E stored \in StoredRates :
           /\ interval_mode = stored.interval_mode
           /\ click_interval = stored.click_interval
           /\ cps_value = stored.cps_value

\* The orchestrator between the detector and the controller: the UI thread
\* polls, dispatches and handles the button; it is blocked while
\* stop_clicking joins.
NextApp ==
    \/ AutoClickerApp_new(FALSE) /\ UNCHANGED << scheduler, appconfig >>
    \/ handle_hotkey_events
    \/ button_clicked
    \/ stop_join /\ UNCHANGED << hotkeyvars, lifetime, appconfig >>
    \/ AutoClickerApp_stop_return /\ UNCHANGED hotkeyvars
    \/ \E w \in Threads : worker(w) /\ UNCHANGED << hotkeyvars, lifetime, appconfig >>
    \/ Tick(MaxAppTime) /\ UNCHANGED << hotkeyvars, lifetime, appconfig >>
    \/ key_down("F1") /\ UNCHANGED << scheduler, appconfig >>
    \/ key_up("F1") /\ UNCHANGED << scheduler, appconfig >>
    \/ os_post /\ UNCHANGED << scheduler, appconfig >>
    \/ event_handler /\ UNCHANGED << scheduler, appconfig >>
    \/ PollTick /\ UNCHANGED << scheduler, appconfig >>

SpecApp == InitApp /\ [][NextApp]_vars

\* ------------------------------------------------------------------ claims

\* The caller is outside stop_clicking and the flag is clear: the controller
\* was never started, or stop_clicking has returned and no start followed.
Stopped == callerpc = "idle" /\ ~ is_running

LiveThreads == {w \in Threads : Live(w)}

\* C1: once stop_clicking() has returned, every worker thread has exited and
\* the running flag is false, and from then until the next start no click is
\* injected and click_count does not change.
C1_StopJoinsAll ==
    /\ [](Stopped => LiveThreads = {} /\ handles = << >>)
    /\ [][Stopped /\ ~ is_running' =>
            click_count' = click_count /\ injected' = injected]_vars

\* stop_clicking has returned from a session in which a click was injected
C1_Witness == Stopped /\ TotalInjected >= 1 /\ click_count >= 1

\* C2: after stop_clicking() has returned, click_count equals the number of
\* clicks all workers injected since the session's start.
C2_CountExact == Stopped => click_count = TotalInjected

\* stop_clicking has returned from a session in which both workers injected
C2_Witness == Stopped /\ injected[0] >= 1 /\ injected[1] >= 1

\* C3 as stated: every increment of click_count happens in a state where the
\* running flag is true.
C3_IncrementOnlyWhileRunning ==
    [][click_count' = click_count + 1 => is_running]_vars

\* C3 as amended: every increment of click_count happens while the running
\* flag is true or while stop_clicking() is still blocked joining the
\* workers; the counter never increases once stop_clicking() has returned.
C3_IncrementBeforeStopReturns ==
    [][click_count' = click_count + 1 => (is_running \/ callerpc = "stopping")]_vars

\* the flag is cleared while a worker is between its injection and its increment
C3_Witness == ~ is_running /\ callerpc = "stopping" /\ \E w \in Threads : pc[w] = "inc"

\* C4: start_clicking(button, 0) on a stopped scheduler leaves the running
\* flag false and start_time as it was.
C4_ZeroStartChangesNothing ==
    [][((\E b \in Buttons : start_clicking(b, 0)) /\ ~ is_running) =>
            (is_running' = is_running /\ start_time' = start_time)]_vars

\* no worker thread exists and the counter is 0
ZeroState == click_count = 0 /\ handles = << >> /\ \A w \in Threads : pc[w] = "none"

\* C5 as stated: after start_clicking(button, 0), in whatever state it was
\* called, click_count is 0 for as long as no start with a non-zero interval
\* is made.
C5_AfterZeroStartCountZero == zero_start => click_count = 0

\* C5 as amended: start_clicking(button, 0) called while the running flag is
\* false spawns no worker thread and leaves click_count 0, and both stay so in
\* every later state for as long as no start with a non-zero interval is made.
C5_ZeroStartOnStoppedStaysZero ==
    /\ [][((\E b \in Buttons : start_clicking(b, 0)) /\ ~ is_running) => ZeroState']_vars
    /\ [][(zero_start /\ zero_start' /\ ZeroState) => ZeroState']_vars

\* a zero start made on a stopped scheduler that held clicks of an earlier session
C5_Witness == zero_start /\ ZeroState /\ is_running /\ discarded >= 1

\* C6: start_clicking called while the running flag is set spawns no worker
\* and leaves click_count, start_time and the running flag unchanged, whatever
\* button and interval are passed.
C6_StartWhileRunningNoOp ==
    [][\A b \in Buttons, i \in StartIntervals :
          (start_clicking(b, i) /\ is_running) =>
              UNCHANGED << is_running, click_count, start_time, handles, pc, session >>]_vars

\* start_clicking(button, 0) was the latest start call and was made during a
\* session whose workers are live and have counted a click
C6_Witness == is_running /\ zero_start /\ LiveThreads # {} /\ click_count >= 1

\* C7: a start that begins a new session (flag clear, interval_ms >= 1) resets
\* click_count to 0 before any of the new workers runs, and the count never
\* exceeds the clicks injected since that reset.
C7_NewSessionResetsCount ==
    /\ [][\A b \in Buttons, i \in StartIntervals \ {0} :
            (start_clicking(b, i) /\ ~ is_running) =>
                (click_count' = 0 /\ \A w \in Threads : pc'[w] \in {"none", "init"})]_vars
    /\ [](click_count <= TotalInjected)

\* a session begun on a controller that held clicks of an earlier session is
\* counting its own clicks
C7_Witness ==
    is_running /\ discarded >= 1 /\ click_count >= 1 /\ click_count = TotalInjected

\* the table of section 4.1
TierTable(i) ==
    CASE i >= 20 -> 1
      [] i >= 5 /\ i <= 19 -> 2
      [] i >= 2 /\ i <= 4 -> 4
      [] i < 2 -> 8

\* C8: for every interval_ms >= 1 a start that begins a session spawns 1
\* worker if interval_ms >= 20, 2 if 5..19, 4 if 2..4 and 8 if below 2.
C8_TierTable ==
    [][\A i \in 1 .. MaxInterval :
          ((\E b \in Buttons : start_clicking(b, i)) /\ ~ is_running) =>
              /\ Len(handles') = TierTable(i)
              /\ Cardinality({w \in Threads : pc'[w] = "init"}) = TierTable(i)]_vars

\* the eight-thread tier has been spawned
C8_Witness ==
    is_running /\ session.interval_ms = 1 /\ Len(handles) = 8 /\ Cardinality(LiveThreads) = 8

\* C9 as stated: once the flag is cleared a worker exits within about 2 ms,
\* also when it is in its coarse sleep: no sleep has more than 2 ms left.
C9_SleepEndsWithinTwoMs ==
    \A w \in Threads : (~ is_running /\ pc[w] = "sleep") => sleep_until[w] - now <= 2

\* C9 as amended: once the flag is cleared a worker in the spin-wait leaves it
\* at its next check, but a worker in the coarse sleep exits only when the
\* sleep ends, which is up to period - 1 ms later (period = interval_ms x N):
\* the time stop_clicking() blocks is bounded by the period, not by 2 ms.
C9_SleepEndsWithinPeriod ==
    \A w \in Threads :
        /\ pc[w] = "sleep" => sleep_until[w] - now <= interval - 1
        /\ (pc[w] = "spin" /\ ~ is_running) => ENABLED w_spin(w)

\* stop_clicking is blocked on a worker whose sleep has period - 1 ms left
C9_Witness ==
    /\ callerpc = "stopping"
    /\ handles # << >>
    /\ pc[Head(handles)] = "sleep"
    /\ sleep_until[Head(handles)] - now = interval - 1

C18_StopWhenStoppedNoOp ==
    [][/\ (Stopped /\ stop_store) => (UNCHANGED ctrl /\ handles' = << >>)
       /\ stop_return => UNCHANGED ctrl]_vars

\* stop_clicking is inside a call made on a controller that never started
C18_Witness ==
    callerpc = "stopping" /\ start_time = NoneInstant /\ handles = << >> /\ ~is_running

\* The latest update_hotkeys succeeded, the detector is polled in toggle
\* (hold = FALSE) or hold mode, and neither changed since the polled binding
\* last went down.
CleanPress(hold) == hold_mode = hold /\ update_result = "Ok" /\ ~press_reset

\* A key goes up and ends the press of the polled binding.
BindingReleased ==
    /\ keys_down' # keys_down
    /\ Pressed(current_hotkey, keys_down)
    /\ ~Pressed(current_hotkey, keys_down')

\* C11: in toggle mode with a registered binding, every press-and-release of
\* the bound key yields exactly one Toggle: when the key goes up, one Toggle
\* has been returned since it went down (none can follow, a Toggle is only
\* returned while the key is down).
C11_ExactlyOneTogglePerPress ==
    [][(CleanPress(FALSE) /\ BindingReleased) => emitted' = << "Toggle" >>]_vars

\* The number of Toggle actions among the actions returned since the polled
\* binding last went down (recorded up to the first reset_key_state, if any).
ToggleCount == Cardinality({i \in DOMAIN emitted : emitted[i] = "Toggle"})

C14_NoActionAfterConflict ==
    update_result = "ErrConflict" => ret \in {"-", "None"}

\* C15: when update_hotkeys is called while the bound key is down and the
\* edge flag is high, no later poll returns a Toggle or a HoldStop that
\* belongs to that press (one returned before the polled binding is pressed
\* anew).
C15_NoActionForPressBeforeRebind ==
    rebound_high => ret \notin {"Toggle", "HoldStop"}

C17_ModeChangeResets ==
    [][/\ (hold_mode' # hold_mode) => (~is_key_pressed' /\ receiver' = << >>)
       /\ (~is_key_pressed /\ is_key_pressed') => poll]_vars

\* the mode was changed from hold to toggle during a press for which hold
\* mode had returned HoldStart and raised the flag; no poll has run since
C17_Witness ==
    /\ ~hold_mode /\ emitted = << "HoldStart" >> /\ press_reset /\ rebound_high
    /\ is_key_currently_pressed /\ ret = "-" /\ ~is_key_pressed /\ receiver = << >>

C20_StaleNotificationNeverMatches ==
    [][(poll /\ ~hold_mode) =>
          \A i \in DOMAIN receiver :
              Some(receiver[i].id) = toggle_hotkey_id => receiver[i].fresh]_vars

\* C21: when the drop of a MouseController has completed, in whatever state it
\* was dropped, the running flag is cleared and every worker thread has
\* exited; while the drop is in progress the flag is already cleared.
C21_DropStopsAndJoins ==
    /\ lifetime = "dropped" =>
          /\ ~is_running
          /\ handles = << >>
          /\ \A w \in Threads : ~Live(w)
    /\ lifetime = "dropping" => ~is_running /\ callerpc = "stopping"

\* a controller dropped while its session was clicking: the drop has
\* completed after the worker injected clicks
C21_Witness ==
    /\ lifetime = "dropped"
    /\ start_time # NoneInstant
    /\ ~zero_start
    /\ TotalInjected >= 1

\* the threads whose JoinHandle the controller holds
Joinable == {handles[k] : k \in DOMAIN handles}

\* C22: at most one session is live.  Every live worker thread has its handle
\* in the vector, each once, and there are at most thread_count <= 8 of them;
\* between calls the live threads are none or all thread_count of the latest
\* session; and a start spawns threads only when no thread is live and no
\* handle is held, exactly thread_count(interval_ms) of them.
C22_OneLiveSession ==
    /\ [](/\ LiveThreads \subseteq Joinable
          /\ Cardinality(Joinable) = Len(handles)
          /\ Len(handles) <= session.thread_count
          /\ session.thread_count <= MaxThreads
          /\ callerpc = "idle" =>
                /\ Cardinality(LiveThreads) \in {0, session.thread_count}
                /\ LiveThreads = Joinable)
    /\ [][Len(handles') > Len(handles) =>
            /\ LiveThreads = {}
            /\ handles = << >>
            /\ Len(handles') = thread_count(session'.interval_ms)
            /\ LiveThreads' = {handles'[k] : k \in DOMAIN handles'}]_vars

\* a second session is running with both its threads, after a session that
\* counted clicks was stopped
C22_Witness ==
    /\ callerpc = "idle" /\ is_running /\ discarded >= 1
    /\ Cardinality(LiveThreads) = 2 /\ Len(handles) = 2
    /\ \E w \in Threads : injected[w] >= 1

\* C23: stop_clicking always terminates.  Under fair scheduling, whenever a
\* call of stop_clicking is in progress, whatever the interval and wherever
\* each worker is (about to fire, in the coarse sleep, in the spin-wait),
\* the call eventually returns with every worker exited and joined.
C23_StopTerminates ==
    (callerpc = "stopping") ~> (callerpc = "idle" /\ LiveThreads = {} /\ handles = << >>)

\* stop_clicking is blocked while one worker is in the coarse sleep and the
\* other is in the spin-wait
C23_Witness ==
    /\ callerpc = "stopping" /\ ~is_running
    /\ \E w \in Threads : pc[w] = "sleep" /\ now < sleep_until[w]
    /\ \E w \in Threads : pc[w] = "spin" /\ now < spin_until[w]

\* C24: a worker injects at most one click per loop iteration: each injection
\* follows a deadline test of its own (line 80) and adds one click.  After a
\* firing in an iteration that read the clock at iter_now, next_click is the
\* previous next_click + period when that is not behind iter_now, and
\* iter_now + period when it is; either way next_click >= iter_now, so a
\* worker that was starved for several periods does not fire once per
\* missed period.
C24_FireOnceAndResync ==
    [][\A w \in Threads :
          /\ injected'[w] > injected[w] =>
                injected'[w] = injected[w] + 1 /\ pc[w] = "click" /\ pc'[w] = "inc"
          /\ (pc'[w] = "click" /\ pc[w] # "click") => (pc[w] = "tick" /\ now >= next_click[w])
          /\ (pc[w] = "inc" /\ pc'[w] # "inc") =>
                /\ next_click'[w] =
                      IF next_click[w] + interval >= iter_now[w]
                      THEN next_click[w] + interval
                      ELSE iter_now[w] + interval
                /\ next_click'[w] >= iter_now[w]]_vars

\* a worker starved for more than a period fired once and its next deadline
\* is one period after that firing
C24_Witness ==
    \E w \in Threads :
        /\ Live(w) /\ pc[w] = "sleepcalc" /\ injected[w] = 1
        /\ last_fire[w] > start_time + offset(w) + interval
        /\ next_click[w] = last_fire[w] + interval

\* C25: with no scheduling delay worker i injects its k-th click (k = 0, 1,
\* 2, ...) at session start + I*i + k*I*N, I = interval_ms and N =
\* thread_count; whenever the clock advances during a session every click
\* due has been injected and counted, one for every I ms since the start,
\* the first at the start; and click_count at T ms is within 1 of T / I.
C25_IdealSchedule ==
    /\ [](\A w \in Threads :
            (Live(w) /\ injected[w] >= 1) =>
                last_fire[w] = start_time + session.interval_ms * w
                     + (injected[w] - 1) * session.interval_ms * session.thread_count)
    /\ []((is_running /\ session # NoSession) =>
            /\ session.interval_ms * click_count - (now - start_time) <= session.interval_ms
            /\ (now - start_time) - session.interval_ms * click_count <= session.interval_ms)
    /\ [][(now' = now + 1 /\ is_running /\ session # NoSession) =>
            /\ TotalInjected = (now - start_time) \div session.interval_ms + 1
            /\ click_count = TotalInjected]_vars

\* the four workers of a 2 ms session have each injected their third click,
\* the last of them 22 ms after the start
C25_Witness ==
    /\ is_running /\ session.interval_ms = 2 /\ session.thread_count = 4
    /\ \A w \in 0 .. 3 : injected[w] = 3
    /\ last_fire[3] = start_time + 22
    /\ click_count = 12

\* the workers that have injected a click and not yet counted it
Uncounted == {w \in Threads : pc[w] = "inc"}

\* C26: cancellation never separates an injection from its count.  In every
\* state the clicks injected since click_count was reset exceed click_count
\* by the number of workers between their injection and their fetch_add, so
\* click_count <= injected <= click_count + live workers; and a worker that
\* has injected counts the click in its next step, whatever the flag is.
C26_CountFollowsInjection ==
    /\ [](/\ TotalInjected = click_count + Cardinality(Uncounted)
          /\ Uncounted \subseteq LiveThreads
          /\ click_count <= TotalInjected
          /\ TotalInjected <= click_count + Cardinality(LiveThreads))
    /\ [][\A w \in Threads :
            (pc[w] = "inc" /\ pc'[w] # "inc") =>
                (click_count' = click_count + 1 /\ pc'[w] = "sleepcalc")]_vars

\* the flag was cleared while both workers were between injection and count
C26_Witness ==
    /\ ~is_running
    /\ Cardinality(Uncounted) = 2
    /\ TotalInjected = click_count + 2

\* an effective hold-mode poll: made HoldPollMs or more after the previous one
EffectiveHoldPoll == poll /\ hold_mode /\ poll_age >= HoldPollMs

\* C27: an effective hold-mode poll returns HoldStart exactly when the direct
\* query finds the polled combination down and the edge flag is low, HoldStop
\* exactly when it finds it up and the flag is high, and None otherwise; and
\* after the poll the edge flag equals the state the query sampled.
C27_HoldPollEdges ==
    [][EffectiveHoldPoll =>
          /\ ret' = "HoldStart" <=> (is_key_currently_pressed /\ ~is_key_pressed)
          /\ ret' = "HoldStop" <=> (~is_key_currently_pressed /\ is_key_pressed)
          /\ ret' \in {"HoldStart", "HoldStop", "None"}
          /\ is_key_pressed' = is_key_currently_pressed]_vars

\* an effective hold-mode poll has just sampled the key down and returned
\* HoldStart
C27_Witness ==
    /\ hold_mode /\ update_result = "Ok" /\ ret = "HoldStart" /\ poll_age = 0
    /\ is_key_pressed /\ is_key_currently_pressed

\* a notification whose id equals the registered handle is in the channel
MatchingQueued == \E i \in DOMAIN receiver : Some(receiver[i].id) = toggle_hotkey_id

\* a toggle-mode poll
TogglePoll == poll /\ ~hold_mode

\* C28: a toggle-mode poll made less than FallbackPollMs after the last
\* fallback poll (so that only the event path can act) returns Toggle
\* exactly when it drains a notification whose id equals the registered
\* handle, the direct query reports the combination down and the edge flag
\* is low, and it then sets the flag.  No toggle-mode poll returns anything
\* while the flag is high, whatever it drains, and a poll that drains only
\* notifications of other ids does what a poll of an empty channel does.
C28_EventPathToggle ==
    [][TogglePoll =>
          /\ poll_age < FallbackPollMs =>
                /\ ret' = "Toggle" <=>
                      (MatchingQueued /\ is_key_currently_pressed /\ ~is_key_pressed)
                /\ ret' # "Toggle" => UNCHANGED is_key_pressed
          /\ ret' = "Toggle" => (is_key_pressed' /\ ~is_key_pressed /\ is_key_currently_pressed)
          /\ (MatchingQueued /\ is_key_currently_pressed /\ ~is_key_pressed) =>
                (ret' = "Toggle" /\ UNCHANGED poll_age)
          /\ is_key_pressed => ret' = "None"
          /\ ret' \in {"Toggle", "None"}
          /\ receiver' = << >>]_vars

\* the press gave its Toggle, the flag is high, and a key-repeat notification
\* with the registered id is in the channel again
C28_Witness ==
    /\ ~hold_mode /\ update_result = "Ok" /\ ~press_reset
    /\ ret = "Toggle" /\ emitted = << "Toggle" >> /\ is_key_pressed
    /\ poll_age < FallbackPollMs /\ MatchingQueued

\* a toggle-mode poll made FallbackPollMs or more after the last fallback
\* poll, with nothing delivered into the channel
FallbackPoll == TogglePoll /\ poll_age >= FallbackPollMs /\ receiver = << >>

\* C29: with nothing delivered by the notification channel, a toggle-mode
\* poll made FallbackPollMs or more after the previous fallback poll returns
\* Toggle and sets the edge flag if the combination is down and the flag is
\* low, and clears the flag if the combination is up and the flag is high;
\* so once a fallback poll has seen the release, the next press that is down
\* at a fallback poll meets a low flag and yields Toggle again.
C29_FallbackDetects ==
    [][FallbackPoll =>
          /\ (is_key_currently_pressed /\ ~is_key_pressed) =>
                (ret' = "Toggle" /\ is_key_pressed')
          /\ (~is_key_currently_pressed /\ is_key_pressed) =>
                (ret' = "None" /\ ~is_key_pressed')
          /\ is_key_pressed' = is_key_currently_pressed
          /\ poll_age' = 0]_vars

\* the press gave its Toggle, the key went up, and a fallback poll has seen
\* the release and lowered the flag, with nothing in the channel
C29_Witness ==
    /\ ~hold_mode /\ update_result = "Ok" /\ ~press_reset
    /\ emitted = << "Toggle" >> /\ ret = "None" /\ poll_age = 0
    /\ ~is_key_currently_pressed /\ ~is_key_pressed
    /\ receiver = << >> /\ handler_event = None

\* a hold-mode poll made less than HoldPollMs after last_poll_time
ThrottledHoldPoll == poll /\ hold_mode /\ poll_age < HoldPollMs

\* C30: a hold-mode poll made less than HoldPollMs after the previous
\* effective poll returns None and changes nothing: the edge flag, the
\* last-poll instant, the notification queue and the registration are left
\* as they were.  An effective hold-mode poll empties the queue and takes
\* the instant of the poll as the last-poll instant.
C30_ThrottledPollNoOp ==
    [][/\ ThrottledHoldPoll =>
            (ret' = "None" /\ UNCHANGED << detector, emitted >>)
       /\ EffectiveHoldPoll => (receiver' = << >> /\ poll_age' = 0)]_vars

\* a hold-mode poll made now is within HoldPollMs of the last one and returns
\* None, although the key is down with the flag low and a notification is
\* queued
C30_Witness ==
    /\ hold_mode /\ update_result = "Ok" /\ ret = "None"
    /\ poll_age < HoldPollMs /\ receiver # << >>
    /\ is_key_currently_pressed /\ ~is_key_pressed

\* the operating system sees the registered hotkey down
RegisteredDown == \E hotkey \in toggle_hotkey : HotKeyDown(hotkey, keys_down)

\* C35: every binding update_hotkeys accepts is detectable: whenever the
\* latest update_hotkeys succeeded and the registered combination is
\* physically down, the direct key-state query reports it pressed.
C35_AcceptedBindingDetectable ==
    (update_result = "Ok" /\ RegisteredDown) => is_key_currently_pressed

\* C36: over every interleaving of polls, mode changes and rebinds, HoldStop
\* is returned only if a HoldStart was returned earlier with no HoldStop,
\* rebind or reset_key_state since, and HoldStart is never returned while
\* such a HoldStart is still open: the two alternate between resets.  Both
\* are returned by hold-mode polls only, and the open HoldStart is what the
\* edge flag records in hold mode.
C36_HoldStartStopAlternate ==
    /\ [][/\ ret' = "HoldStop" /\ poll => hold_open /\ hold_mode
          /\ ret' = "HoldStart" /\ poll => ~hold_open /\ hold_mode]_vars
    /\ [](hold_open <=> (hold_mode /\ is_key_pressed))

\* hold mode was left and entered again while the key stayed down, and the
\* new HoldStart has been closed by a HoldStop
C36_Witness ==
    /\ hold_mode /\ update_result = "Ok" /\ press_reset
    /\ ret = "HoldStop" /\ ~hold_open /\ ~is_key_pressed
    /\ emitted = << "HoldStart" >>

\* C33: a call start_clicking(button, interval_ms >= 1) made while no worker
\* thread is live spawns the workers of its tier, after whatever calls were
\* made before it; start changes nothing only when live workers exist.
C33_StartWithoutWorkersSpawns ==
    [][\A b \in Buttons, i \in StartIntervals \ {0} :
          (start_clicking(b, i) /\ LiveThreads = {}) =>
              /\ is_running'
              /\ Len(handles') = thread_count(i)
              /\ Cardinality(LiveThreads') = thread_count(i)]_vars

\* the start path accepts the stored rate (app.rs lines 101-119)
RateAccepted ==
    \/ interval_mode = "Milliseconds" /\ click_interval > 0
    \/ interval_mode = "CPS" /\ cps_value > 0

\* what a call of AutoClickerApp::start_clicking leaves behind: with an
\* accepted rate the controller was called and both running flags are set,
\* otherwise nothing changed; the caller is not blocked
StartCalled ==
    /\ callerpc' = "idle"
    /\ IF RateAccepted
       THEN config_is_running' /\ is_running'
            /\ (~is_running => start_time' = now' /\ click_count' = 0)
       ELSE UNCHANGED << scheduler, appconfig >>

\* what a call of AutoClickerApp::stop_clicking begins with: the controller's
\* flag is cleared and the caller joins the workers
StopCalled == callerpc' = "stopping" /\ ~is_running'

\* C31: handle_hotkey_events maps the action the poll returns to the
\* controller: Toggle calls stop if config.is_running is set and start
\* otherwise; HoldStart calls start only if it is clear; HoldStop calls stop
\* only if it is set; and a poll returning None calls neither.
C31_ActionDispatch ==
    [][handle_hotkey_events =>
          /\ (ret' = "Toggle" /\ config_is_running) => StopCalled
          /\ (ret' = "Toggle" /\ ~config_is_running) => StartCalled
          /\ (ret' = "HoldStart" /\ ~config_is_running) => StartCalled
          /\ (ret' = "HoldStop" /\ config_is_running) => StopCalled
          /\ \/ ret' = "None"
             \/ ret' = "HoldStart" /\ config_is_running
             \/ ret' = "HoldStop" /\ ~config_is_running
             => UNCHANGED << scheduler, appconfig >>]_vars

\* a Toggle started a session whose worker has clicked, and the next Toggle
\* has called stop, which is joining the worker
C31_Witness ==
    /\ ~hold_mode /\ ret = "Toggle" /\ callerpc = "stopping"
    /\ config_is_running /\ ~is_running
    /\ click_count >= 1 /\ LiveThreads # {}

\* C32: AutoClickerApp::start_clicking never calls
\* MouseController::start_clicking with an effective interval of 0, whatever
\* click_interval, cps_value and interval_mode the configuration holds.
C32_ZeroNeverReachesScheduler == ~zero_start

\* C34: between the calls the UI thread makes, config.is_running equals
\* MouseController::is_running(), from the state loaded from the
\* configuration file on.
C34_RunningFlagsAgree ==
    callerpc = "idle" => (config_is_running = is_running)

====
